---- MODULE Spec2Model ----
(***************************************************************************)
(* X-Ray Threat Detector (src/app_code/app.py): a Streamlit page.  Every   *)
(* user interaction of a session re-runs main() top to bottom on that      *)
(* session's script thread; load_model and load_class_names are memoized   *)
(* process-wide by st.cache_resource and st.cache_data.                    *)
(*                                                                         *)
(* Five specifications share the module:                                    *)
(*   Spec        several sessions running the scan pipeline concurrently   *)
(*               against the process-wide caches and the one interpreter;  *)
(*   SpecPage    one session, every interaction of the page (scanner and   *)
(*               converter widgets, corrupt uploads, failing loads);       *)
(*   SpecResults predict's post-processing and render_results as           *)
(*               functions of the model's output vector;                   *)
(*   SpecLabels  clean_class_name, the catalog lookup and the top card as  *)
(*               functions of a label file entry;                          *)
(*   SpecConvert the Convert handler of the image converter, statement by  *)
(*               statement, as a function of the upload and the widgets.   *)
(***************************************************************************)
EXTENDS Integers, Sequences, FiniteSets, TLC

VARIABLES
    pc,          \* per session: position of the script thread inside main()
    scanFile,    \* per session: value of the "scan_uploader" widget
    convFile,    \* per session: value of the "converter_uploader" widget
    trigger,     \* per session: the interaction that started the current cycle
    log,         \* per session: what the current cycle has done so far, in order
    gotModel,    \* per session: interpreter instance load_model() returned
    gotNames,    \* per session: list object load_class_names() last returned
    result,      \* per session: image whose probabilities predict() returned
    modelCache,  \* st.cache_resource entry of load_model: 0 or the instance
    modelLoads,  \* number of interpreters load_model's body has constructed
    modelLock,   \* holder of the cache's compute lock for load_model, 0 if free
    namesCache,  \* st.cache_data entry of load_class_names: 0 or the load stored
    namesLoads,  \* number of times load_class_names' body has read the file
    namesLock,   \* holder of the cache's compute lock for load_class_names
    tensorIn,    \* per interpreter instance: image held by its input tensor
    tensorOut,   \* per interpreter instance: image its output tensor was computed from
    computing,   \* per session: inputs the invoke() it is inside has read, {} outside
    probs,       \* SpecResults: the model's output vector, in units of 1/Scale
    stage,       \* SpecResults: "model", "predicted" or "rendered"
    prediction,  \* SpecResults: what predict() returned
    locals,      \* SpecResults: render_results' arguments as they are at its end
    card,        \* SpecResults: the top result card render_results drew
    rows,        \* SpecResults: the rows of the probability breakdown
    fileEntry,   \* SpecLabels: an entry of the label file, as np.load returns it
    cleaned,     \* SpecLabels: what clean_class_name made of it
    labelStage,  \* SpecLabels: "raw", "clean" or "shown"
    shown,       \* SpecLabels: catalog entry and top card render_results drew
    request,     \* SpecConvert: the upload and the widget values at the Convert click
    out_image,   \* SpecConvert: the working image of the Convert handler
    convPc,      \* SpecConvert: position inside the Convert handler
    convLog,     \* SpecConvert: the steps the handler has run, in order
    report       \* SpecConvert: the success card and the download button drawn

sessVars == <<pc, scanFile, convFile, trigger, log, gotModel, gotNames, result>>
procVars == <<modelCache, modelLoads, modelLock, namesCache, namesLoads,
              namesLock, tensorIn, tensorOut, computing>>
resVars  == <<probs, stage, prediction, locals, card, rows>>
labelVars == <<fileEntry, cleaned, labelStage, shown>>
convVars == <<request, out_image, convPc, convLog, report>>
vars     == <<sessVars, procVars, resVars, labelVars, convVars>>

(***************************************************************************)
(* Bounds of the model.                                                    *)
(***************************************************************************)
NumSessions == 2
MaxLoads == 2
Scale == 10

Sessions == 1..NumSessions
Instances == 1..MaxLoads

(***************************************************************************)
(* The page: widgets, interactions and the order of main().                *)
(***************************************************************************)
NoFile == "none"

\* The object identity of "nothing returned yet".
NoObject == [id |-> <<>>, src |-> 0]

\* Interactions with the scanner tab, the converter tab, and a plain page load.
ScanEvents == {"scan_upload", "scan_upload_corrupt", "scan_clear"}
ConverterEvents == {"conv_upload", "conv_upload_corrupt", "conv_clear",
                    "conv_control", "convert", "download"}
PageEvents == {"open"} \cup ScanEvents \cup ConverterEvents

Has(s, step) == \E i \in 1..Len(log[s]) : log[s][i] = step

Emit(s, steps) == log' = [log EXCEPT ![s] = @ \o steps]

Goto(s, p) == pc' = [pc EXCEPT ![s] = p]

\* The script thread of s is not running: the last cycle ended (normally or in
\* the host's error display) or the session has not loaded the page yet.
Idle(s) == pc[s] \in {"done", "error"}

\* A widget can be used only when the last cycle drew it.
Offered(s, ev) ==
    CASE ev = "open" -> TRUE
      [] ev \in ScanEvents ->
            /\ Has(s, "page")
            /\ (ev = "scan_clear" => scanFile[s] # NoFile)
      [] ev \in {"conv_upload", "conv_upload_corrupt"} -> Has(s, "conv_view")
      [] ev = "conv_clear" -> Has(s, "conv_view") /\ convFile[s] # NoFile
      [] ev \in {"conv_control", "convert"} -> Has(s, "conv_controls")
      [] ev = "download" -> Has(s, "conv_result")

\* Widget state after the interaction: the uploaders keep their file across
\* reruns, a button is True only in the rerun its click starts.
ScanFileAfter(cur, ev) ==
    CASE ev = "scan_upload" -> "ok"
      [] ev = "scan_upload_corrupt" -> "corrupt"
      [] ev = "scan_clear" -> NoFile
      [] OTHER -> cur

ConvFileAfter(cur, ev) ==
    CASE ev = "conv_upload" -> "ok"
      [] ev = "conv_upload_corrupt" -> "corrupt"
      [] ev = "conv_clear" -> NoFile
      [] OTHER -> cur

\* An interaction starts a rerun of main(): styles, sidebar, hero, tabs,
\* carousel and the scan uploader are drawn.
Rerun(s, ev) ==
    /\ Idle(s)
    /\ Offered(s, ev)
    /\ scanFile' = [scanFile EXCEPT ![s] = ScanFileAfter(@, ev)]
    /\ convFile' = [convFile EXCEPT ![s] = ConvFileAfter(@, ev)]
    /\ trigger' = [trigger EXCEPT ![s] = ev]
    /\ log' = [log EXCEPT ![s] = <<"page">>]
    /\ gotModel' = [gotModel EXCEPT ![s] = 0]
    /\ gotNames' = [gotNames EXCEPT ![s] = NoObject]
    /\ result' = [result EXCEPT ![s] = 0]
    /\ Goto(s, "decode")
    /\ UNCHANGED <<procVars, resVars, labelVars, convVars>>


MainNextNoDelay(p, uploaded) ==
    CASE p = "decode" -> IF uploaded THEN "indicator" ELSE "prompt"
      [] p = "indicator" -> "clear"
      [] p = "sleep" -> "clear"
      [] p = "clear" -> "load_model"
      [] p = "load_model" -> "predict"
      [] p = "predict" -> "render_results"
      [] p = "render_results" -> "converter"
      [] p = "prompt" -> "converter"
      [] p = "converter" -> "footer"
      [] p = "footer" -> "done"

MainNextAlwaysScans(p, uploaded) ==
    CASE p = "decode" -> "indicator"
      [] p = "indicator" -> "sleep"
      [] p = "sleep" -> "clear"
      [] p = "clear" -> "load_model"
      [] p = "load_model" -> "predict"
      [] p = "predict" -> "render_results"
      [] p = "render_results" -> "converter"
      [] p = "prompt" -> "converter"
      [] p = "converter" -> "footer"
      [] p = "footer" -> "done"

\* The order of main() after the scan uploader: the program point that follows
\* point p.  uploaded is "uploaded_file is not None".
MainNext(p, uploaded) ==
    CASE p = "decode" -> IF uploaded THEN "indicator" ELSE "prompt"
      [] p = "indicator" -> "sleep"
      [] p = "sleep" -> "clear"
      [] p = "clear" -> "load_model"
      [] p = "load_model" -> "predict"
      [] p = "predict" -> "render_results"
      [] p = "render_results" -> "converter"
      [] p = "prompt" -> "converter"
      [] p = "converter" -> "footer"
      [] p = "footer" -> "done"

Uploaded(s) == scanFile[s] # NoFile

\* Left column: Image.open(uploaded_file) and st.image.  A file that is no
\* image raises, and the exception ends the script run.
Decode(s) ==
    /\ pc[s] = "decode"
    /\ IF scanFile[s] = "corrupt"
       THEN Goto(s, "error") /\ UNCHANGED log
       ELSE /\ Emit(s, IF Uploaded(s) THEN <<"decode">> ELSE <<>>)
            /\ Goto(s, MainNext("decode", Uploaded(s)))
    /\ UNCHANGED <<scanFile, convFile, trigger, gotModel, gotNames, result,
                   procVars, resVars, labelVars, convVars>>

\* A step of main() that touches nothing but the page of session s.
PageStep(s, at, steps) ==
    /\ pc[s] = at
    /\ Emit(s, steps)
    /\ Goto(s, MainNext(at, Uploaded(s)))
    /\ UNCHANGED <<scanFile, convFile, trigger, gotModel, gotNames, result,
                   procVars, resVars, labelVars, convVars>>

\* Right column with a file: the placeholder with the scanning animation,
\* time.sleep(1.5) inside it, then scan_placeholder.empty().
Indicator(s) == PageStep(s, "indicator", <<"indicator">>)

Sleep(s) == PageStep(s, "sleep", <<"delay">>)

Clear(s) == PageStep(s, "clear", <<"clear">>)

\* Right column without a file: the empty-state prompt.
Prompt(s) == PageStep(s, "prompt", <<"prompt">>)

Footer(s) == PageStep(s, "footer", <<"footer">>)

(***************************************************************************)
(* The memoized loaders.  Both decorators keep one entry (the functions    *)
(* take no arguments).  A call looks the entry up; on a miss it takes the  *)
(* entry's compute lock, looks again, and only then runs the body and      *)
(* stores the value.  A body that raises stores nothing.                   *)
(***************************************************************************)
CacheNeverHit(entry) == FALSE

\* Whether the decorated function's single cache entry holds a value.
CacheHit(entry) == entry # 0

\* load_model() returns to main() with interpreter instance inst.
ModelReturn(s, inst) ==
    /\ gotModel' = [gotModel EXCEPT ![s] = inst]
    /\ Goto(s, MainNext("load_model", TRUE))

LoadModelCall(s) ==
    /\ pc[s] = "load_model"
    /\ Emit(s, <<"load_model">>)
    /\ IF CacheHit(modelCache)
       THEN ModelReturn(s, modelCache)
       ELSE Goto(s, "lm_wait") /\ UNCHANGED gotModel
    /\ UNCHANGED <<scanFile, convFile, trigger, gotNames, result, procVars, resVars, labelVars, convVars>>

LoadModelWait(s) ==
    /\ pc[s] = "lm_wait"
    /\ modelLock = 0
    /\ IF CacheHit(modelCache)
       THEN ModelReturn(s, modelCache) /\ UNCHANGED modelLock
       ELSE Goto(s, "lm_load") /\ modelLock' = s /\ UNCHANGED gotModel
    /\ UNCHANGED <<scanFile, convFile, trigger, log, gotNames, result, modelCache,
                   modelLoads, namesCache, namesLoads, namesLock, tensorIn,
                   tensorOut, computing, resVars, labelVars, convVars>>

\* The body of load_model: tf.lite.Interpreter(model_path) and
\* allocate_tensors().  It raises when the artifact is missing or malformed.
LoadModelBody(s) ==
    /\ pc[s] = "lm_load"
    /\ modelLoads < MaxLoads
    /\ \E loadable \in BOOLEAN :
          IF loadable
          THEN /\ modelLoads' = modelLoads + 1
               /\ modelCache' = modelLoads + 1
               /\ tensorIn' = [tensorIn EXCEPT ![modelLoads + 1] = 0]
               /\ tensorOut' = [tensorOut EXCEPT ![modelLoads + 1] = 0]
               /\ ModelReturn(s, modelLoads + 1)
          ELSE /\ Goto(s, "error")
               /\ UNCHANGED <<modelLoads, modelCache, tensorIn, tensorOut, gotModel>>
    /\ modelLock' = 0
    /\ UNCHANGED <<scanFile, convFile, trigger, log, gotNames, result, namesCache,
                   namesLoads, namesLock, computing, resVars, labelVars, convVars>>

\* load_class_names() is called by predict and again by render_results.
InPredict(s) == pc[s] \in {"predict", "p_cn_wait", "p_cn_load"}

NamesSite(s) == IF InPredict(s) THEN 1 ELSE 2

\* st.cache_data stores the pickled value: the call that ran the body keeps
\* the object it built, every later call gets a fresh unpickled copy.
NamesReturn(s, obj) ==
    /\ gotNames' = [gotNames EXCEPT ![s] = obj]
    /\ Goto(s, IF InPredict(s) THEN "set_tensor" ELSE "render_card")

NamesCopy(s) == [id |-> <<"copy", s, NamesSite(s)>>, src |-> namesCache]

LoadNamesCall(s) ==
    /\ pc[s] \in {"predict", "render_results"}
    /\ Emit(s, <<pc[s]>>)
    /\ IF CacheHit(namesCache)
       THEN NamesReturn(s, NamesCopy(s))
       ELSE /\ Goto(s, IF InPredict(s) THEN "p_cn_wait" ELSE "r_cn_wait")
            /\ UNCHANGED gotNames
    /\ UNCHANGED <<scanFile, convFile, trigger, gotModel, result, procVars, resVars, labelVars, convVars>>

LoadNamesWait(s) ==
    /\ pc[s] \in {"p_cn_wait", "r_cn_wait"}
    /\ namesLock = 0
    /\ IF CacheHit(namesCache)
       THEN NamesReturn(s, NamesCopy(s)) /\ UNCHANGED namesLock
       ELSE /\ Goto(s, IF InPredict(s) THEN "p_cn_load" ELSE "r_cn_load")
            /\ namesLock' = s
            /\ UNCHANGED gotNames
    /\ UNCHANGED <<scanFile, convFile, trigger, log, gotModel, result, modelCache,
                   modelLoads, modelLock, namesCache, namesLoads, tensorIn,
                   tensorOut, computing, resVars, labelVars, convVars>>

\* The body of load_class_names: np.load of the label file and the cleaning
\* of every entry.  It raises when the file cannot be read.
LoadNamesBody(s) ==
    /\ pc[s] \in {"p_cn_load", "r_cn_load"}
    /\ namesLoads < MaxLoads
    /\ \E readable \in BOOLEAN :
          IF readable
          THEN /\ namesLoads' = namesLoads + 1
               /\ namesCache' = namesLoads + 1
               /\ NamesReturn(s, [id |-> <<"loaded", namesLoads + 1>>,
                                  src |-> namesLoads + 1])
          ELSE /\ Goto(s, "error")
               /\ UNCHANGED <<namesLoads, namesCache, gotNames>>
    /\ namesLock' = 0
    /\ UNCHANGED <<scanFile, convFile, trigger, log, gotModel, result, modelCache,
                   modelLoads, modelLock, tensorIn, tensorOut, computing, resVars,
                   labelVars, convVars>>

(***************************************************************************)
(* predict(interpreter, image) on the interpreter load_model returned.     *)
(* The image a session uploads is identified by the session.               *)
(***************************************************************************)
\* The interpreter is one object shared by the sessions, and its calls take
\* no lock.  invoke() releases Python's global interpreter lock while it
\* computes, so a set_tensor, invoke or get_tensor of another session on the
\* same instance can run inside it.

\* The sessions that are inside invoke() on instance i.
Inside(i) == {t \in Sessions : pc[t] = "invoking" /\ gotModel[t] = i}

\* An output that is the vector of no session's image: computed from a
\* mixture of inputs, or read while it was partly written.
Mixture == NumSessions + 1

\* interpreter.set_tensor(input index, preprocessed image); it raises when
\* the model's input tensor does not take the array (shape or type mismatch).
\* The write lands in the buffer a running invoke() is reading.
SetTensor(s) ==
    /\ pc[s] = "set_tensor"
    /\ \E accepted \in BOOLEAN :
          IF accepted
          THEN /\ tensorIn' = [tensorIn EXCEPT ![gotModel[s]] = s]
               /\ computing' = [t \in Sessions |->
                                   IF t \in Inside(gotModel[s])
                                   THEN computing[t] \cup {s}
                                   ELSE computing[t]]
               /\ Goto(s, "invoke")
          ELSE /\ Goto(s, "error")
               /\ UNCHANGED <<tensorIn, computing>>
    /\ UNCHANGED <<scanFile, convFile, trigger, log, gotModel, gotNames, result,
                   modelCache, modelLoads, modelLock, namesCache, namesLoads,
                   namesLock, tensorOut, resVars, labelVars, convVars>>

\* interpreter.invoke() starts: the computation reads the input tensor.  Two
\* computations running on one instance share its intermediate buffers.
InvokeBegin(s) ==
    /\ pc[s] = "invoke"
    /\ computing' = [t \in Sessions |->
                        IF t = s
                        THEN {tensorIn[gotModel[s]]} \cup
                             (IF Inside(gotModel[s]) # {} THEN {Mixture} ELSE {})
                        ELSE IF t \in Inside(gotModel[s])
                             THEN computing[t] \cup {Mixture}
                             ELSE computing[t]]
    /\ Goto(s, "invoking")
    /\ UNCHANGED <<scanFile, convFile, trigger, log, gotModel, gotNames, result,
                   modelCache, modelLoads, modelLock, namesCache, namesLoads,
                   namesLock, tensorIn, tensorOut, resVars, labelVars, convVars>>

\* Another call wrote the interpreter's buffers while invoke() of s computed.
Raced(s) == Cardinality(computing[s]) > 1

\* What invoke() of s can leave in the output tensor: the vector of the one
\* input it read, and after a race the vector of any input it read or a
\* mixture of them.
InvokeOutputs(s) == computing[s] \cup (IF Raced(s) THEN {Mixture} ELSE {})

\* interpreter.invoke() ends: the output tensor is computed from the input
\* tensor.  After a race the native call can also fail.
InvokeEnd(s) ==
    /\ pc[s] = "invoking"
    /\ \E out \in InvokeOutputs(s), completed \in BOOLEAN :
          /\ ~completed => Raced(s)
          /\ tensorOut' = [tensorOut EXCEPT ![gotModel[s]] = out]
          /\ Goto(s, IF completed THEN "get_tensor" ELSE "error")
    /\ computing' = [computing EXCEPT ![s] = {}]
    /\ UNCHANGED <<scanFile, convFile, trigger, log, gotModel, gotNames, result,
                   modelCache, modelLoads, modelLock, namesCache, namesLoads,
                   namesLock, tensorIn, resVars, labelVars, convVars>>

\* What get_tensor can read from instance i: the output tensor, and while an
\* invoke() is writing it also that computation's output or a part of it.
TensorReads(i) ==
    {tensorOut[i]} \cup
    (IF Inside(i) # {}
     THEN {Mixture} \cup UNION {computing[t] : t \in Inside(i)}
     ELSE {})

\* interpreter.get_tensor(output index), argmax, and the return to main().
GetTensor(s) ==
    /\ pc[s] = "get_tensor"
    /\ \E output \in TensorReads(gotModel[s]) :
          result' = [result EXCEPT ![s] = output]
    /\ Emit(s, <<"predicted">>)
    /\ Goto(s, MainNext("predict", TRUE))
    /\ UNCHANGED <<scanFile, convFile, trigger, gotModel, gotNames, procVars, resVars, labelVars, convVars>>

\* render_results after its load_class_names(): the result card and the
\* probability breakdown.
RenderCard(s) ==
    /\ pc[s] = "render_card"
    /\ Emit(s, <<"results">>)
    /\ Goto(s, MainNext("render_results", TRUE))
    /\ UNCHANGED <<scanFile, convFile, trigger, gotModel, gotNames, result,
                   procVars, resVars, labelVars, convVars>>


(***************************************************************************)
(* The converter tab, drawn by every run of main() after the scanner tab.  *)
(***************************************************************************)
ConverterDrawsKeepsResult(file, clicked, encodes) ==
    CASE file = NoFile -> <<"conv_view", "conv_prompt">>
      [] file = "corrupt" -> <<"conv_view">>
      [] file = "ok" ->
            <<"conv_view", "conv_image", "conv_controls">>
            \o (IF encodes THEN <<"conv_result">> ELSE <<>>)

\* What render_image_converter draws: the uploader; with a file its preview,
\* info card and controls; and, in the rerun a Convert click started, the
\* outcome of the conversion pipeline.
ConverterDraws(file, clicked, encodes) ==
    CASE file = NoFile -> <<"conv_view", "conv_prompt">>
      [] file = "corrupt" -> <<"conv_view">>
      [] file = "ok" ->
            <<"conv_view", "conv_image", "conv_controls">>
            \o (IF clicked /\ encodes THEN <<"conv_result">> ELSE <<>>)

ConverterNeverRaises(file, clicked, encodes) == FALSE

\* Image.open of a file that is no image raises; so does a resize, mode
\* conversion or save the image does not support.
ConverterRaises(file, clicked, encodes) ==
    \/ file = "corrupt"
    \/ file = "ok" /\ clicked /\ ~encodes

Converter(s) ==
    /\ pc[s] = "converter"
    /\ \E encodes \in BOOLEAN :
          LET clicked == trigger[s] = "convert" IN
          /\ Emit(s, ConverterDraws(convFile[s], clicked, encodes))
          /\ Goto(s, IF ConverterRaises(convFile[s], clicked, encodes)
                     THEN "error"
                     ELSE MainNext("converter", Uploaded(s)))
    /\ UNCHANGED <<scanFile, convFile, trigger, gotModel, gotNames, result,
                   procVars, resVars, labelVars, convVars>>

(***************************************************************************)
(* Specifications of the page.                                             *)
(***************************************************************************)
ResultsOff ==
    /\ probs = <<>>
    /\ stage = "off"
    /\ prediction = <<>>
    /\ locals = <<>>
    /\ card = <<>>
    /\ rows = <<>>

LabelsOff ==
    /\ fileEntry = <<>>
    /\ cleaned = <<>>
    /\ labelStage = "off"
    /\ shown = <<>>

ConvertOff ==
    /\ request = <<>>
    /\ out_image = <<>>
    /\ convPc = "off"
    /\ convLog = <<>>
    /\ report = <<>>

PageInit ==
    /\ pc = [s \in Sessions |-> "done"]
    /\ scanFile = [s \in Sessions |-> NoFile]
    /\ convFile = [s \in Sessions |-> NoFile]
    /\ trigger = [s \in Sessions |-> "none"]
    /\ log = [s \in Sessions |-> <<>>]
    /\ gotModel = [s \in Sessions |-> 0]
    /\ gotNames = [s \in Sessions |-> NoObject]
    /\ result = [s \in Sessions |-> 0]
    /\ modelCache = 0
    /\ modelLoads = 0
    /\ modelLock = 0
    /\ namesCache = 0
    /\ namesLoads = 0
    /\ namesLock = 0
    /\ tensorIn = [i \in Instances |-> 0]
    /\ tensorOut = [i \in Instances |-> 0]
    /\ computing = [s \in Sessions |-> {}]

Init == PageInit /\ ResultsOff /\ LabelsOff /\ ConvertOff

\* One step of the script thread of session s.
Step(s) ==
    \/ Decode(s)
    \/ Indicator(s)
    \/ Sleep(s)
    \/ Clear(s)
    \/ Prompt(s)
    \/ LoadModelCall(s)
    \/ LoadModelWait(s)
    \/ LoadModelBody(s)
    \/ LoadNamesCall(s)
    \/ LoadNamesWait(s)
    \/ LoadNamesBody(s)
    \/ SetTensor(s)
    \/ InvokeBegin(s)
    \/ InvokeEnd(s)
    \/ GetTensor(s)
    \/ RenderCard(s)
    \/ Converter(s)
    \/ Footer(s)

\* Interactions of the sessions that use the scanner concurrently.
ScannerEvents == {"open", "scan_upload", "scan_clear"}

Next == \E s \in Sessions : (\E ev \in ScannerEvents : Rerun(s, ev)) \/ Step(s)

Spec == Init /\ [][Next]_vars

\* One session, every interaction the page offers.
NextPage == (\E ev \in PageEvents : Rerun(1, ev)) \/ Step(1)

SpecPage == Init /\ [][NextPage]_vars


(***************************************************************************)
(* Text.  A Python str is a sequence of one-character strings; a str built *)
(* by concatenation or format() is kept as the sequence of its parts.      *)
(***************************************************************************)
Battery == <<"B", "a", "t", "t", "e", "r", "y">>

Scissors == <<"S", "c", "i", "s", "s", "o", "r", "s">>

Hammer == <<"H", "a", "m", "m", "e", "r">>

Pliers == <<"P", "l", "i", "e", "r", "s">>

Wrench == <<"W", "r", "e", "n", "c", "h">>

Explosive == <<"E", "x", "p", "l", "o", "s", "i", "v", "e">>

Bullet == <<"B", "u", "l", "l", "e", "t">>

Knife == <<"K", "n", "i", "f", "e">>

Cutter == <<"C", "u", "t", "t", "e", "r">>

Lighter == <<"L", "i", "g", "h", "t", "e", "r">>

\* THREAT_INFO: the catalog, keyed by clean label.
THREAT_INFO ==
    Battery :> [risk |-> "Medium", color |-> "#f0ad4e", desc |-> "Lithium batteries can pose fire risks in cargo."] @@
    Scissors :> [risk |-> "Medium", color |-> "#f0ad4e", desc |-> "Scissors with blades over 6 cm are restricted."] @@
    Hammer :> [risk |-> "Medium", color |-> "#f0ad4e", desc |-> "Blunt-force tools are prohibited in carry-on luggage."] @@
    Pliers :> [risk |-> "Medium", color |-> "#f0ad4e", desc |-> "Hand tools over 7 cm are restricted in cabins."] @@
    Wrench :> [risk |-> "Medium", color |-> "#f0ad4e", desc |-> "Heavy tools are not allowed as carry-on items."] @@
    Explosive :> [risk |-> "Critical", color |-> "#d9534f", desc |-> "Explosive materials are strictly prohibited."] @@
    Bullet :> [risk |-> "High", color |-> "#d9534f", desc |-> "Ammunition is banned from all passenger flights."] @@
    Knife :> [risk |-> "High", color |-> "#d9534f", desc |-> "Knives of any length are prohibited in carry-on."] @@
    Cutter :> [risk |-> "High", color |-> "#d9534f", desc |-> "Box cutters and blades are strictly forbidden."] @@
    Lighter :> [risk |-> "Low", color |-> "#5bc0de", desc |-> "One disposable lighter is allowed on person only."]

DictGetAlwaysDefault(d, key, default) == default

\* dict.get(key, default)
DictGet(d, key, default) == IF key \in DOMAIN d THEN d[key] ELSE default

\* The default record render_results passes to THREAT_INFO.get.
UnknownInfo ==
    [risk |-> "Unknown", color |-> "#94a3b8",
     desc |-> "No additional information available."]

\* str.lower() on the risk tiers.
Lower(risk) ==
    CASE risk = "Low" -> "low"
      [] risk = "Medium" -> "medium"
      [] risk = "High" -> "high"
      [] risk = "Critical" -> "critical"
      [] risk = "Unknown" -> "unknown"

\* Index of the first "_" of raw, 0 when it has none.
FirstUnderscore(raw) ==
    IF \E i \in 1..Len(raw) : raw[i] = "_"
    THEN CHOOSE i \in 1..Len(raw) :
            raw[i] = "_" /\ \A j \in 1..(i - 1) : raw[j] # "_"
    ELSE 0

\* raw.split("_"): two parts exactly when raw holds one underscore.
clean_class_name_SplitAll(raw) ==
    IF Cardinality({i \in 1..Len(raw) : raw[i] = "_"}) = 1
    THEN SubSeq(raw, FirstUnderscore(raw) + 1, Len(raw))
    ELSE raw

\* clean_class_name: raw.split("_", 1) has two parts exactly when raw holds
\* an underscore; the second part is what follows the first one.
clean_class_name(raw) ==
    IF FirstUnderscore(raw) = 0
    THEN raw
    ELSE SubSeq(raw, FirstUnderscore(raw) + 1, Len(raw))

\* The label file class_names_7classes.npy is an artifact outside the
\* source; this stand-in has the documented "<prefix>_<Label>" entries, two
\* labels the catalog does not know and one entry without a prefix.
ClassPrefix(d) == <<"C", "l", "a", "s", "s", " ", d, "_">>

RawClassNames ==
    << ClassPrefix("1") \o Explosive,
       ClassPrefix("2") \o Knife,
       ClassPrefix("3") \o Lighter,
       ClassPrefix("4") \o Battery,
       ClassPrefix("5") \o <<"G", "u", "n">>,
       ClassPrefix("6") \o <<"M", "u", "l", "t", "i", "_", "T", "o", "o", "l">>,
       Scissors >>

\* What load_class_names() returns: every raw name cleaned, in file order.
LoadedClassNames == [i \in 1..Len(RawClassNames) |-> clean_class_name(RawClassNames[i])]

NumClasses == 7

(***************************************************************************)
(* predict's post-processing of the output tensor.  A probability is an    *)
(* integer number of units of 1/Scale.                                     *)
(***************************************************************************)
ArgmaxLast(v) ==
    CHOOSE i \in 1..Len(v) :
        /\ \A j \in 1..Len(v) : v[j] <= v[i]
        /\ \A j \in (i + 1)..Len(v) : v[j] < v[i]

\* np.argmax: the first index holding the largest entry.
Argmax(v) ==
    CHOOSE i \in 1..Len(v) :
        /\ \A j \in 1..Len(v) : v[j] <= v[i]
        /\ \A j \in 1..(i - 1) : v[j] < v[i]

\* Lines 139-144 of predict: (predicted_class, confidence, probs).
PredictResult(class_names, output) ==
    LET top_idx == Argmax(output) IN
    [predicted_class |-> class_names[top_idx],
     confidence |-> output[top_idx],
     probs |-> output]


(***************************************************************************)
(* render_results(predicted_class, confidence, probs).                     *)
(***************************************************************************)
LowConfidencePct == 30

GreenPct == 80

AmberPct == 50

NotKnown == <<"N", "o", "t", " ", "K", "n", "o", "w", "n">>

\* round(): the nearest integer to num/den, a tie going to the even one.
RoundHalfEven(num, den) ==
    LET q == num \div den
        r == num % den
    IN  IF 2 * r < den THEN q
        ELSE IF 2 * r > den THEN q + 1
        ELSE IF q % 2 = 0 THEN q ELSE q + 1

\* str(round(p * 100, 1)): the percentage in tenths of a percent.
Pct(p) == RoundHalfEven(p * 1000, Scale)

\* str(round(p * 100)): the bar width in whole percent.
BarWidth(p) == RoundHalfEven(p * 100, Scale)

IsUncertainInclusive(confidence) == confidence * 100 <= LowConfidencePct * Scale

\* is_uncertain = confidence < 0.30
IsUncertain(confidence) == confidence * 100 < LowConfidencePct * Scale

\* Lines 783-790: the catalog lookup with its fallback, risk and risk_class.
Lookup(predicted_class, confidence, output) ==
    LET info == DictGet(THREAT_INFO, predicted_class, UnknownInfo) IN
    [predicted_class |-> predicted_class,
     confidence |-> confidence,
     probs |-> output,
     info |-> info,
     risk |-> info.risk,
     risk_class |-> <<"risk-", Lower(info.risk)>>]

\* The else branch of the override: the label and its catalog entry.
CatalogDisplay(env) ==
    [display_name |-> env.predicted_class,
     display_risk |-> env.risk,
     display_desc |-> <<env.info.desc>>] @@ env

OverrideResetsConfidence(env) ==
    IF IsUncertain(env.confidence)
    THEN [display_name |-> NotKnown,
          display_risk |-> "Unknown",
          risk_class |-> <<"risk-", "low">>,
          confidence |-> 0,
          display_desc |-> <<"The model is not confident enough. Closest guess: ",
                             env.predicted_class, ".">>] @@ env
    ELSE CatalogDisplay(env)

\* Lines 792-802: the low-confidence override.
LowConfidenceOverride(env) ==
    IF IsUncertain(env.confidence)
    THEN [display_name |-> NotKnown,
          display_risk |-> "Unknown",
          risk_class |-> <<"risk-", "low">>,
          display_desc |-> <<"The model is not confident enough. Closest guess: ",
                             env.predicted_class, ".">>] @@ env
    ELSE CatalogDisplay(env)

ConfColorExclusive(confidence) ==
    IF confidence * 100 > GreenPct * Scale THEN "#22c55e"
    ELSE IF confidence * 100 > AmberPct * Scale THEN "#eab308"
    ELSE "#ef4444"

\* Lines 804-810: the confidence color.
ConfColor(confidence) ==
    IF confidence * 100 >= GreenPct * Scale THEN "#22c55e"
    ELSE IF confidence * 100 >= AmberPct * Scale THEN "#eab308"
    ELSE "#ef4444"

\* Lines 812-842: the values format() puts into the top result card.
ResultCard(env) ==
    [name |-> env.display_name,
     risk_class |-> env.risk_class,
     risk |-> env.display_risk,
     conf_color |-> ConfColor(env.confidence),
     conf_pct |-> Pct(env.confidence),
     conf_width |-> BarWidth(env.confidence),
     desc |-> env.display_desc]

Reverse(seq) == [k \in 1..Len(seq) |-> seq[Len(seq) + 1 - k]]

\* The indices of v holding the smallest entry among those of left.
Smallest(v, left) == {i \in left : \A j \in left : v[i] <= v[j]}

\* np.argsort(v): an index order along which v ascends.  The default sort is
\* not stable, so every order of equal entries is a possible result.
RECURSIVE AscendingOrders(_, _)
AscendingOrders(v, left) ==
    IF left = {} THEN {<<>>}
    ELSE UNION {{<<i>> \o rest : rest \in AscendingOrders(v, left \ {i})} :
                i \in Smallest(v, left)}

Argsort(v) == AscendingOrders(v, DOMAIN v)

SortedIndicesAscending(v) == Argsort(v)

\* sorted_indices = np.argsort(probs)[::-1]
SortedIndices(v) == {Reverse(order) : order \in Argsort(v)}

BreakdownRowsByPosition(class_names, v, sorted_indices) ==
    [k \in 1..Len(sorted_indices) |->
        [idx |-> sorted_indices[k],
         name |-> class_names[k],
         pct |-> Pct(v[sorted_indices[k]]),
         bar_w |-> BarWidth(v[sorted_indices[k]])]]

\* Lines 853-867: one row per entry of sorted_indices, in that order.
BreakdownRows(class_names, v, sorted_indices) ==
    [k \in 1..Len(sorted_indices) |->
        [idx |-> sorted_indices[k],
         name |-> class_names[sorted_indices[k]],
         pct |-> Pct(v[sorted_indices[k]]),
         bar_w |-> BarWidth(v[sorted_indices[k]])]]

(***************************************************************************)
(* SpecResults: one scan from the model's output vector to the page.       *)
(***************************************************************************)
\* The sequences of n entries in 0..total that sum to total.
RECURSIVE Distributions(_, _)
Distributions(n, total) ==
    IF n = 1 THEN {<<total>>}
    ELSE UNION {{<<x>> \o rest : rest \in Distributions(n - 1, total - x)} :
                x \in 0..total}

\* The output layer is a softmax: its entries sum to 1.
ProbVectors == Distributions(NumClasses, Scale)

InitResults ==
    /\ PageInit
    /\ LabelsOff
    /\ ConvertOff
    /\ probs \in ProbVectors
    /\ stage = "model"
    /\ prediction = <<>>
    /\ locals = <<>>
    /\ card = <<>>
    /\ rows = <<>>

\* predict() from interpreter.get_tensor on.
Predict ==
    /\ stage = "model"
    /\ prediction' = PredictResult(LoadedClassNames, probs)
    /\ stage' = "predicted"
    /\ UNCHANGED <<probs, locals, card, rows, sessVars, procVars,
                 labelVars, convVars>>

\* render_results(predicted_class, confidence, probs) as main() calls it.
RenderResults ==
    /\ stage = "predicted"
    /\ LET env == LowConfidenceOverride(
                      Lookup(prediction.predicted_class, prediction.confidence,
                             prediction.probs))
       IN  /\ card' = ResultCard(env)
           /\ \E sorted_indices \in SortedIndices(env.probs) :
                 rows' = BreakdownRows(LoadedClassNames, env.probs, sorted_indices)
           /\ locals' = [predicted_class |-> env.predicted_class,
                         confidence |-> env.confidence,
                         probs |-> env.probs]
    /\ stage' = "rendered"
    /\ UNCHANGED <<probs, prediction, sessVars, procVars,
                 labelVars, convVars>>

NextResults == Predict \/ RenderResults

SpecResults == InitResults /\ [][NextResults]_vars


(***************************************************************************)
(* SpecLabels: one entry of the label file through clean_class_name, then  *)
(* through the catalog lookup and the top card of render_results.          *)
(***************************************************************************)
MaxNameLen == 5

NameChars == {"A", "B", "_"}

\* The strings over chars of at most n characters.
RECURSIVE Strings(_, _)
Strings(chars, n) ==
    IF n = 0 THEN {<<>>}
    ELSE LET shorter == Strings(chars, n - 1) IN
         shorter \cup {str \o <<c>> : str \in {x \in shorter : Len(x) = n - 1},
                                      c \in chars}

\* Entries the label file can hold: short strings with and without
\* underscores, the stand-in file's entries, and every catalogued name bare
\* and behind a class prefix.
FileEntries ==
    Strings(NameChars, MaxNameLen)
        \cup {RawClassNames[i] : i \in 1..Len(RawClassNames)}
        \cup DOMAIN THREAT_INFO
        \cup {ClassPrefix("1") \o name : name \in DOMAIN THREAT_INFO}

InitLabels ==
    /\ PageInit
    /\ ResultsOff
    /\ ConvertOff
    /\ fileEntry \in FileEntries
    /\ cleaned = <<>>
    /\ labelStage = "raw"
    /\ shown = <<>>

\* load_class_names: clean_class_name(str(n)) for the entry n.
CleanName ==
    /\ labelStage = "raw"
    /\ cleaned' = clean_class_name(fileEntry)
    /\ labelStage' = "clean"
    /\ UNCHANGED <<fileEntry, shown, sessVars, procVars, resVars, convVars>>

\* render_results up to the top card, for the cleaned entry as the predicted
\* class and any confidence.
ShowLabel ==
    /\ labelStage = "clean"
    /\ \E confidence \in 0..Scale :
          LET env == LowConfidenceOverride(Lookup(cleaned, confidence, <<confidence>>))
          IN  shown' = [info |-> env.info,
                        confidence |-> confidence,
                        top |-> ResultCard(env)]
    /\ labelStage' = "shown"
    /\ UNCHANGED <<fileEntry, cleaned, sessVars, procVars, resVars, convVars>>

NextLabels == CleanName \/ ShowLabel

SpecLabels == InitLabels /\ [][NextLabels]_vars

(***************************************************************************)
(* Python float arithmetic (IEEE 754 binary64, round to nearest, ties to   *)
(* even) on the values the ICO size limit computes.  A float is its        *)
(* Precision mantissa bits, most significant first and the first one 1,    *)
(* with the exponent of two that the last bit weighs.  Long numbers are    *)
(* handled LimbBits bits at a time to stay inside the integers of TLC;     *)
(* integer operands are below Limb.                                        *)
(***************************************************************************)
Precision == 53

LimbBits == 15

Limb == 2^LimbBits

\* The natural number whose bits are bits, most significant first.
RECURSIVE BitsValue(_)
BitsValue(bits) ==
    IF bits = <<>> THEN 0
    ELSE 2 * BitsValue(SubSeq(bits, 1, Len(bits) - 1)) + bits[Len(bits)]

\* The bits of a sequence of limbs, most significant first.
LimbsToBits(limbs) ==
    [i \in 1..(LimbBits * Len(limbs)) |->
        (limbs[((i - 1) \div LimbBits) + 1]
            \div 2^(LimbBits - 1 - ((i - 1) % LimbBits))) % 2]

Zeros(n) == [k \in 1..n |-> 0]

\* bits without its leading zeros (bits holds a 1).
StripZeros(bits) ==
    LET first == CHOOSE k \in 1..Len(bits) :
                    bits[k] = 1 /\ \A j \in 1..(k - 1) : bits[j] = 0
    IN  SubSeq(bits, first, Len(bits))

\* bits + 1 on the same number of bits (bits holds a 0).
Increment(bits) ==
    LET last == CHOOSE k \in 1..Len(bits) :
                   bits[k] = 0 /\ \A j \in (k + 1)..Len(bits) : bits[j] = 1
    IN  [k \in 1..Len(bits) |-> IF k < last THEN bits[k]
                                ELSE IF k = last THEN 1 ELSE 0]

\* The float nearest to bits * 2^e, plus something below the last bit when
\* sticky; bits starts with a 1.
RoundToPrecision(bits, e, sticky) ==
    IF Len(bits) <= Precision
    THEN [m |-> bits \o Zeros(Precision - Len(bits)),
          e |-> e - (Precision - Len(bits))]
    ELSE LET kept == SubSeq(bits, 1, Precision)
             more == sticky \/ \E k \in (Precision + 2)..Len(bits) : bits[k] = 1
             up == bits[Precision + 1] = 1 /\ (more \/ kept[Precision] = 1)
             shift == Len(bits) - Precision
         IN  IF ~up THEN [m |-> kept, e |-> e + shift]
             ELSE IF \A k \in 1..Precision : kept[k] = 1
             THEN [m |-> <<1>> \o Zeros(Precision - 1), e |-> e + shift + 1]
             ELSE [m |-> Increment(kept), e |-> e + shift]

\* float(num) / den for integers 0 < num < den < Limb: five limbs of the
\* quotient by long division, then rounded.
FloatDiv(num, den) ==
    LET d1 == (num * Limb) \div den
        r1 == (num * Limb) % den
        d2 == (r1 * Limb) \div den
        r2 == (r1 * Limb) % den
        d3 == (r2 * Limb) \div den
        r3 == (r2 * Limb) % den
        d4 == (r3 * Limb) \div den
        r4 == (r3 * Limb) % den
        d5 == (r4 * Limb) \div den
        r5 == (r4 * Limb) % den
    IN  RoundToPrecision(StripZeros(LimbsToBits(<<d1, d2, d3, d4, d5>>)),
                         0 - 5 * LimbBits, r5 # 0)

\* n * x for an integer 0 < n < Limb and a float x: the mantissa as four
\* limbs, multiplied limb by limb from the right, then rounded.
IntTimesFloat(n, x) ==
    LET padded == Zeros(4 * LimbBits - Precision) \o x.m
        limb(k) == BitsValue(SubSeq(padded, (k - 1) * LimbBits + 1, k * LimbBits))
        t4 == limb(4) * n
        t3 == limb(3) * n + t4 \div Limb
        t2 == limb(2) * n + t3 \div Limb
        t1 == limb(1) * n + t2 \div Limb
    IN  RoundToPrecision(
            StripZeros(LimbsToBits(<<t1 \div Limb, t1 % Limb, t2 % Limb,
                                     t3 % Limb, t4 % Limb>>)),
            x.e, FALSE)

\* int(x) for a float x >= 0 below 2^LimbBits.
Trunc(x) ==
    IF Precision + x.e <= 0 THEN 0
    ELSE BitsValue(SubSeq(x.m, 1, Precision + x.e))

(***************************************************************************)
(* SpecConvert: the handler of the Convert button (lines 1020-1094), one   *)
(* statement group per step.  An image is its mode, its size and one       *)
(* representative pixel: a color and whether the alpha band, if the mode   *)
(* has one, makes it clear or opaque.                                      *)
(***************************************************************************)
FORMAT_OPTIONS ==
    [PNG |-> [ext |-> "png", mime |-> "image/png", pillow |-> "PNG"],
     JPEG |-> [ext |-> "jpg", mime |-> "image/jpeg", pillow |-> "JPEG"],
     BMP |-> [ext |-> "bmp", mime |-> "image/bmp", pillow |-> "BMP"],
     GIF |-> [ext |-> "gif", mime |-> "image/gif", pillow |-> "GIF"],
     TIFF |-> [ext |-> "tiff", mime |-> "image/tiff", pillow |-> "TIFF"],
     WEBP |-> [ext |-> "webp", mime |-> "image/webp", pillow |-> "WEBP"],
     ICO |-> [ext |-> "ico", mime |-> "image/x-icon", pillow |-> "ICO"]]

IcoLimit == 256

KiB == 1024

DefaultQuality == 95

\* Pillow modes with an alpha band.
HasAlpha(mode) == mode \in {"RGBA", "LA"}

Max(a, b) == IF a >= b THEN a ELSE b

\* Image.resize(size, Image.LANCZOS): the mode is kept.
Resized(im, size) == [im EXCEPT !.size = size]

\* Image.resize raises ValueError for a size with a dimension below 1.
ResizeRaises(size) == size[1] < 1 \/ size[2] < 1

\* Image.convert("RGB"): the color is kept and an alpha band is dropped.
ConvertedToRGB(im) ==
    [mode |-> "RGB", size |-> im.size, px |-> [v |-> im.px.v, a |-> "opaque"]]

\* Lines 1030-1032: a white RGB image of the same size with the image
\* pasted through its own alpha band.
PastedOnWhite(im) ==
    [mode |-> "RGB", size |-> im.size,
     px |-> [v |-> IF im.px.a = "opaque" THEN im.px.v ELSE "white",
             a |-> "opaque"]]

\* Lines 1028-1034: what the alpha handling does to the working image.
AlphaHandling(target_format, im) ==
    IF target_format \in {"JPEG", "BMP", "ICO"} /\ im.mode = "RGBA"
    THEN [op |-> "flatten", image |-> PastedOnWhite(im)]
    ELSE IF target_format = "JPEG" /\ im.mode # "RGB"
    THEN [op |-> "convert", image |-> ConvertedToRGB(im)]
    ELSE [op |-> "none", image |-> im]

\* Lines 1040-1042: ratio = 256.0 / max_dim and the two int(side * ratio),
\* in float arithmetic.
IcoSize(size) ==
    LET max_dim == Max(size[1], size[2])
        ratio == FloatDiv(IcoLimit, max_dim)
    IN  <<Trunc(IntTimesFloat(size[1], ratio)), Trunc(IntTimesFloat(size[2], ratio))>>

\* str(x) of the float x = scaled / 10^ndigits that round(_, ndigits)
\* returned (ndigits 1 or 2): the shortest digits, one decimal at least.
FloatStr(scaled, ndigits) ==
    IF ndigits = 1
    THEN <<ToString(scaled \div 10), ".", ToString(scaled % 10)>>
    ELSE <<ToString(scaled \div 100), ".", ToString((scaled % 100) \div 10)>>
            \o (IF scaled % 10 = 0 THEN <<>> ELSE <<ToString(scaled % 10)>>)

SizeStrInclusive(file_size) ==
    IF file_size <= KiB THEN <<ToString(file_size), " B">>
    ELSE IF file_size <= KiB * KiB
    THEN FloatStr(RoundHalfEven(file_size * 10, KiB), 1) \o <<" KB">>
    ELSE FloatStr(RoundHalfEven(file_size * 100, KiB * KiB), 2) \o <<" MB">>

\* Lines 1054-1060: size_str.
SizeStr(file_size) ==
    IF file_size < KiB THEN <<ToString(file_size), " B">>
    ELSE IF file_size < KiB * KiB
    THEN FloatStr(RoundHalfEven(file_size * 10, KiB), 1) \o <<" KB">>
    ELSE FloatStr(RoundHalfEven(file_size * 100, KiB * KiB), 2) \o <<" MB">>

\* Position of the last "." of name, 0 when it has none (str.rfind, from 1).
LastDot(name) ==
    IF \E i \in 1..Len(name) : name[i] = "."
    THEN CHOOSE i \in 1..Len(name) :
            name[i] = "." /\ \A j \in (i + 1)..Len(name) : name[j] # "."
    ELSE 0

StemToFirstDot(name) ==
    IF \E i \in 2..Len(name) : name[i] = "."
    THEN SubSeq(name, 1, (CHOOSE i \in 2..Len(name) :
                             name[i] = "." /\ \A j \in 2..(i - 1) : name[j] # ".") - 1)
    ELSE name

\* Path(name).stem for a name without directories: the name up to its last
\* ".", unless that "." is the first or the last character.
Stem(name) ==
    IF 1 < LastDot(name) /\ LastDot(name) < Len(name)
    THEN SubSeq(name, 1, LastDot(name) - 1)
    ELSE name

\* The uploads: source images, file names ending in an extension the
\* uploader accepts, and the values of the widgets at the click.
SourceModes == {"RGB", "L", "RGBA", "LA"}

SourceWidths == {1, 100, 322, 512}

SourceHeights == {1, 80, 256}

Pixels(mode) ==
    {[v |-> "black", a |-> alpha] :
        alpha \in IF HasAlpha(mode) THEN {"clear", "opaque"} ELSE {"opaque"}}

SourceImages ==
    UNION {{[mode |-> mode, size |-> <<w, h>>, px |-> px] :
                w \in SourceWidths, h \in SourceHeights, px \in Pixels(mode)} :
           mode \in SourceModes}

UploadNames ==
    { <<"s", "c", "a", "n", "0", "1", ".", "P", "N", "G">>,
      <<"a", ".", "p", "n", "g">>,
      <<"a", ".", "b", ".", "p", "n", "g">>,
      <<".", "a", ".", "p", "n", "g">> }

\* The quality slider is drawn for JPEG and WEBP only.
Qualities(target_format) ==
    IF target_format \in {"JPEG", "WEBP"} THEN {10, DefaultQuality}
    ELSE {DefaultQuality}

\* Width and height typed into the two number inputs (min_value 1).
RequestedSizes == {<<1, 1>>, <<1000, 256>>, <<322, 80>>}

Requests ==
    UNION {UNION {
        {[name |-> name, conv_image |-> im, target_format |-> target,
          quality |-> quality, resize |-> FALSE,
          new_w |-> im.size[1], new_h |-> im.size[2]] :
             name \in UploadNames, quality \in Qualities(target)}
        \cup
        {[name |-> name, conv_image |-> im, target_format |-> target,
          quality |-> quality, resize |-> TRUE,
          new_w |-> size[1], new_h |-> size[2]] :
             name \in UploadNames, quality \in Qualities(target),
             size \in RequestedSizes \cup {im.size}} :
        target \in DOMAIN FORMAT_OPTIONS} : im \in SourceImages}

\* Sizes in bytes the encoder can return, around the unit thresholds.
EncodedSizes == {500, 1023, 1024, 1280, 2048, 1048575, 1048576, 3145728}

InitConvert ==
    /\ PageInit
    /\ ResultsOff
    /\ LabelsOff
    /\ request \in Requests
    /\ out_image = <<>>
    /\ convPc = "copy"
    /\ convLog = <<>>
    /\ report = <<>>

ConvertNextIcoFirst(p) ==
    CASE p = "copy" -> "ico"
      [] p = "ico" -> "resize"
      [] p = "resize" -> "alpha"
      [] p = "alpha" -> "encode"
      [] p = "encode" -> "report"
      [] p = "report" -> "done"

\* The statement groups of the handler in program order.
ConvertNext(p) ==
    CASE p = "copy" -> "resize"
      [] p = "resize" -> "alpha"
      [] p = "alpha" -> "ico"
      [] p = "ico" -> "encode"
      [] p = "encode" -> "report"
      [] p = "report" -> "done"

ConvertInputs == <<sessVars, procVars, resVars, labelVars, request>>

\* Lines 1021-1022: out_image = conv_image.copy()
Copy ==
    /\ convPc = "copy"
    /\ out_image' = request.conv_image
    /\ convPc' = ConvertNext("copy")
    /\ UNCHANGED <<convLog, report, ConvertInputs>>

\* Lines 1025-1026: the requested resize.
ResizeStep ==
    /\ convPc = "resize"
    /\ IF request.resize
       THEN /\ out_image' = Resized(out_image, <<request.new_w, request.new_h>>)
            /\ convLog' = Append(convLog, "resize")
       ELSE UNCHANGED <<out_image, convLog>>
    /\ convPc' = ConvertNext("resize")
    /\ UNCHANGED <<report, ConvertInputs>>

\* Lines 1028-1034: the alpha handling.
AlphaStep ==
    /\ convPc = "alpha"
    /\ LET handled == AlphaHandling(request.target_format, out_image) IN
       /\ out_image' = handled.image
       /\ convLog' = IF handled.op = "none" THEN convLog
                     ELSE Append(convLog, handled.op)
    /\ convPc' = ConvertNext("alpha")
    /\ UNCHANGED <<report, ConvertInputs>>

\* Lines 1036-1044: the ICO size limit.
IcoStep ==
    /\ convPc = "ico"
    /\ IF request.target_format = "ICO"
          /\ Max(out_image.size[1], out_image.size[2]) > IcoLimit
       THEN /\ convLog' = Append(convLog, "downscale")
            /\ IF ResizeRaises(IcoSize(out_image.size))
               THEN convPc' = "error" /\ UNCHANGED out_image
               ELSE /\ out_image' = Resized(out_image, IcoSize(out_image.size))
                    /\ convPc' = ConvertNext("ico")
       ELSE /\ convPc' = ConvertNext("ico")
            /\ UNCHANGED <<out_image, convLog>>
    /\ UNCHANGED <<report, ConvertInputs>>

\* Lines 1046-1060: out_image.save into the buffer, which the encoder can
\* refuse, then the size of what it wrote.
Encode ==
    /\ convPc = "encode"
    /\ convLog' = Append(convLog, "save")
    /\ \E saved \in BOOLEAN, file_size \in EncodedSizes :
          IF saved
          THEN /\ report' =
                    [encoded |-> out_image,
                     save_kwargs |->
                         [format |-> FORMAT_OPTIONS[request.target_format].pillow,
                          quality |-> IF request.target_format \in {"JPEG", "WEBP"}
                                      THEN request.quality ELSE 0],
                     file_size |-> file_size,
                     size_str |-> SizeStr(file_size)]
               /\ convPc' = ConvertNext("encode")
          ELSE convPc' = "error" /\ UNCHANGED report
    /\ UNCHANGED <<out_image, ConvertInputs>>

\* Lines 1062-1094: the success card, the preview and the download button.
Report ==
    /\ convPc = "report"
    /\ LET fmt_info == FORMAT_OPTIONS[request.target_format]
           out_name == <<Stem(request.name), "_converted.", fmt_info.ext>>
       IN  report' =
              [card |-> [fmt |-> request.target_format,
                         w |-> out_image.size[1],
                         h |-> out_image.size[2],
                         fsize |-> report.size_str],
               preview |-> out_image,
               download |-> [label |-> <<"Download ", request.target_format>>,
                             file_name |-> out_name,
                             mime |-> fmt_info.mime]] @@ report
    /\ convLog' = Append(convLog, "report")
    /\ convPc' = ConvertNext("report")
    /\ UNCHANGED <<out_image, ConvertInputs>>

NextConvert == Copy \/ ResizeStep \/ AlphaStep \/ IcoStep \/ Encode \/ Report

SpecConvert == InitConvert /\ [][NextConvert]_vars

(***************************************************************************)
(* Properties of the page (Spec, SpecPage).                                *)
(***************************************************************************)
\* What a cycle with a scan file does in the scanner tab, in program order.
ScanSteps ==
    <<"decode", "indicator", "delay", "clear", "load_model", "predict",
      "predicted", "render_results", "results">>

IsScanStep(step) == \E i \in 1..Len(ScanSteps) : ScanSteps[i] = step

ScanLog(s) == SelectSeq(log[s], IsScanStep)

IsPrefix(a, b) == Len(a) <= Len(b) /\ a = SubSeq(b, 1, Len(a))

PastScanner(s) == pc[s] \in {"converter", "footer", "done"}

Returned(s) == gotNames[s] # NoObject

\* C1, as the claim states it: each loader's body completes at most once per
\* process, and all callers of a loader hold one and the same object.
C1_OneSharedInstance ==
    /\ modelLoads <= 1
    /\ namesLoads <= 1
    /\ \A s, t \in Sessions :
          /\ gotModel[s] # 0 /\ gotModel[t] # 0 => gotModel[s] = gotModel[t]
          /\ Returned(s) /\ Returned(t) => gotNames[s].id = gotNames[t].id

\* C1, amended: each loader's body completes at most once per process under
\* every interleaving of first calls; every load_model caller holds the one
\* cached interpreter; every load_class_names caller holds the value of the
\* one load, each caller in an object of its own.
C1_LoadOnce ==
    /\ modelLoads <= 1
    /\ namesLoads <= 1
    /\ \A s \in Sessions :
          /\ gotModel[s] # 0 => gotModel[s] = modelCache
          /\ Returned(s) => gotNames[s].src = namesCache
    /\ \A s, t \in Sessions :
          s # t /\ Returned(s) /\ Returned(t) => gotNames[s].id # gotNames[t].id

\* A session that missed the cache waits for the lock while the load another
\* session started has completed and returned.
C1_Witness ==
    \E s, t \in Sessions :
        /\ s # t
        /\ modelCache # 0
        /\ gotModel[s] = modelCache
        /\ pc[t] = "lm_wait"

\* C2: every predict call returns the probabilities of the image of its own
\* session, however the calls of concurrent sessions interleave.
C2_PredictReturnsOwnImage ==
    \A s \in Sessions : result[s] # 0 => result[s] = s

\* C3: in a cycle with a scan file the scanner steps happen in the order
\* decode, indicator, delay, clear, load_model, predict, render_results, none
\* skipped or reordered; a cycle that gets past the scanner tab did them all.
C3_ScanStepsInOrder ==
    \A s \in Sessions :
        Uploaded(s) /\ Has(s, "page") =>
            /\ IsPrefix(ScanLog(s), ScanSteps)
            /\ (PastScanner(s) \/ Has(s, "conv_view") => ScanLog(s) = ScanSteps)

C3_Witness ==
    \E s \in Sessions :
        /\ Uploaded(s)
        /\ pc[s] = "done"
        /\ ScanLog(s) = ScanSteps

\* C4: a cycle without a scan file draws the empty-state prompt and does no
\* step of the scan pipeline; the loaders' bodies run only in a cycle that
\* has a scan file.
C4_NoFileNoInference ==
    /\ [](\A s \in Sessions :
            ~Uploaded(s) /\ Has(s, "page") =>
                /\ ScanLog(s) = <<>>
                /\ gotModel[s] = 0
                /\ ~Returned(s)
                /\ result[s] = 0
                /\ (PastScanner(s) \/ pc[s] = "error" => Has(s, "prompt")))
    /\ [][modelLoads' # modelLoads \/ namesLoads' # namesLoads =>
            \E s \in Sessions : Uploaded(s) /\ pc'[s] # pc[s]]_vars

C4_Witness ==
    \E s \in Sessions :
        /\ ~Uploaded(s)
        /\ pc[s] = "done"
        /\ Has(s, "prompt")
        /\ modelLoads = 0

\* C5: a cycle started by a converter interaction does not run the scanning
\* delay, load_model or predict, and always reaches the converter view.
C5_ConverterCycleIndependent ==
    \A s \in Sessions :
        trigger[s] \in ConverterEvents =>
            /\ ~Has(s, "delay")
            /\ ~Has(s, "load_model")
            /\ ~Has(s, "predict")
            /\ (Idle(s) => Has(s, "conv_view"))


\* C18: a failing step of the scan pipeline (decode, load_model,
\* load_class_names, predict) or of the conversion pipeline (decode and the
\* Convert handler) ends the cycle in the error state at that step: the
\* cycle goes no further until the next interaction, repeats no step, and
\* draws no result of the failing pipeline; a cycle that does go on past a
\* pipeline has drawn that pipeline's result.
C18_FailureEndsCycle ==
    /\ [](\A s \in Sessions :
            /\ \A i, j \in 1..Len(log[s]) : i # j => log[s][i] # log[s][j]
            /\ pc[s] = "error" =>
                  IF Has(s, "conv_view") THEN ~Has(s, "conv_result")
                  ELSE ~Has(s, "results")
            /\ scanFile[s] = "corrupt" /\ Has(s, "page") =>
                  pc[s] \in {"decode", "error"} /\ log[s] = <<"page">>
            /\ convFile[s] = "corrupt" /\ Has(s, "conv_view") =>
                  pc[s] = "error" /\ ~Has(s, "conv_controls")
            /\ Has(s, "conv_view") /\ Uploaded(s) => Has(s, "results")
            /\ Has(s, "footer") /\ trigger[s] = "convert" => Has(s, "conv_result"))
    /\ [][\A s \in Sessions :
            pc[s] = "error" /\ pc'[s] # "error" =>
                pc'[s] = "decode" /\ log'[s] = <<"page">>]_vars

\* A Convert click whose conversion failed: the controls are drawn, the
\* cycle ended in the error state and no conversion result was drawn.
C18_Witness ==
    \E s \in Sessions :
        /\ pc[s] = "error"
        /\ trigger[s] = "convert"
        /\ convFile[s] = "ok"
        /\ Has(s, "conv_controls")
        /\ ~Has(s, "conv_result")

\* C20: a conversion result is on the page only in a cycle a Convert click
\* started, and the Convert handler runs (and so can fail) in no other cycle:
\* after any other interaction the page shows no conversion result.
C20_ResultOnlyInConvertCycle ==
    \A s \in Sessions :
        /\ Has(s, "conv_result") => trigger[s] = "convert"
        /\ pc[s] = "error" /\ Has(s, "conv_controls") => trigger[s] = "convert"
        /\ Idle(s) /\ trigger[s] # "convert" => ~Has(s, "conv_result")

\* The cycle started by pressing the download button, which only a drawn
\* conversion result offers, ended with the controls and without a result.
C20_Witness ==
    \E s \in Sessions :
        /\ trigger[s] = "download"
        /\ pc[s] = "done"
        /\ Has(s, "conv_controls")
        /\ ~Has(s, "conv_result")

(***************************************************************************)
(* Properties of predict and render_results (SpecResults).                 *)
(***************************************************************************)
Predicted == stage \in {"predicted", "rendered"}

Rendered == stage = "rendered"

Classes == 1..Len(probs)

IsMaximal(i) == \A j \in Classes : probs[j] <= probs[i]

\* confidence < 0.30, in units of 1/Scale.
BelowThreshold == 10 * prediction.confidence < 3 * Scale

\* pct is p, as a percentage, rounded to the nearest tenth of a percent.
ShowsProbability(pct, p) ==
    /\ 2 * (pct * Scale - 1000 * p) <= Scale
    /\ 2 * (1000 * p - pct * Scale) <= Scale

\* The class indices of the breakdown's rows, top row first.
RowOrder == [k \in 1..Len(rows) |-> rows[k].idx]

OverrideDescription ==
    <<"The model is not confident enough. Closest guess: ",
      prediction.predicted_class, ".">>

\* C6: predict's confidence is the largest entry of the output vector, its
\* label is the clean class name at the lowest index holding that entry, and
\* the vector is returned unchanged.
C6_PredictArgmax ==
    Predicted =>
        /\ prediction.probs = probs
        /\ \E i \in Classes :
              /\ IsMaximal(i)
              /\ \A j \in 1..(i - 1) : probs[j] < probs[i]
              /\ prediction.confidence = probs[i]
              /\ prediction.predicted_class = clean_class_name(RawClassNames[i])

\* Two entries tie for the maximum and predict reported the lower one.
C6_Witness ==
    /\ Predicted
    /\ \E i, j \in Classes :
          /\ i < j
          /\ IsMaximal(i)
          /\ probs[j] = probs[i]
          /\ prediction.confidence = probs[i]
          /\ prediction.predicted_class = LoadedClassNames[i]

\* C7: the breakdown has one row per class index, in non-increasing order of
\* probability, and the row of index i shows class name i and probability i.
C7_BreakdownRows ==
    Rendered =>
        /\ Len(rows) = Len(probs)
        /\ {rows[k].idx : k \in 1..Len(rows)} = Classes
        /\ \A k \in 1..(Len(rows) - 1) :
              probs[rows[k].idx] >= probs[rows[k + 1].idx]
        /\ \A k \in 1..Len(rows) :
              /\ rows[k].name = LoadedClassNames[rows[k].idx]
              /\ ShowsProbability(rows[k].pct, probs[rows[k].idx])

\* A breakdown with a strict descent and with a tie between neighbours.
C7_Witness ==
    /\ Rendered
    /\ \E k \in 1..(Len(rows) - 1) : probs[rows[k].idx] > probs[rows[k + 1].idx]
    /\ \E k \in 1..(Len(rows) - 1) :
          /\ probs[rows[k].idx] = probs[rows[k + 1].idx]
          /\ rows[k].name # rows[k + 1].name

\* C8, as the claim states it: the first row of the breakdown is the class
\* predict reported, shown with the reported confidence.
C8_FirstRowIsPredicted ==
    Rendered =>
        /\ rows[1].name = prediction.predicted_class
        /\ rows[1].pct = card.conf_pct

\* C8, amended: the first row of the breakdown shows the reported confidence,
\* and it is the class predict reported whenever the maximum is unique.
C8_FirstRowHasConfidence ==
    Rendered =>
        /\ probs[rows[1].idx] = prediction.confidence
        /\ rows[1].pct = card.conf_pct
        /\ ((\A j \in Classes \ {rows[1].idx} : probs[j] < probs[rows[1].idx])
               => rows[1].name = prediction.predicted_class)

\* The maximum is unique and its class leads the breakdown.
C8_Witness ==
    /\ Rendered
    /\ \A j \in Classes \ {rows[1].idx} : probs[j] < probs[rows[1].idx]
    /\ rows[1].name = prediction.predicted_class
    /\ rows[1].pct = card.conf_pct

\* C9: below 0.30 the card shows "Not Known", risk "Unknown" in the Low-risk
\* style and the closest-guess text, whatever the catalog holds; from 0.30 on
\* it shows the label with the catalog's risk and description, or the Unknown
\* fallback for a label the catalog does not hold.
C9_LowConfidenceOverride ==
    Rendered =>
        LET label == prediction.predicted_class IN
        IF BelowThreshold
        THEN /\ card.name = NotKnown
             /\ card.risk = "Unknown"
             /\ card.risk_class = <<"risk-", "low">>
             /\ card.desc = OverrideDescription
        ELSE /\ card.name = label
             /\ IF label \in DOMAIN THREAT_INFO
                THEN /\ card.risk = THREAT_INFO[label].risk
                     /\ card.desc = <<THREAT_INFO[label].desc>>
                ELSE /\ card.risk = "Unknown"
                     /\ card.desc = <<"No additional information available.">>

\* The override fires on a label the catalog holds.
C9_Witness ==
    /\ Rendered
    /\ BelowThreshold
    /\ prediction.predicted_class \in DOMAIN THREAT_INFO
    /\ card.name = NotKnown
    /\ card.desc = OverrideDescription

\* C10: when the override fires, render_results still ends, its arguments
\* are what predict returned, and the confidence percentage, bar and color and
\* every breakdown row are those of the rendering without the override.
C10_OverridePresentational ==
    /\ stage = "predicted" /\ BelowThreshold => ENABLED RenderResults
    /\ Rendered /\ BelowThreshold =>
          LET plain == ResultCard(CatalogDisplay(
                           Lookup(prediction.predicted_class,
                                  prediction.confidence, prediction.probs)))
          IN  /\ locals.predicted_class = prediction.predicted_class
              /\ locals.confidence = prediction.confidence
              /\ locals.probs = prediction.probs
              /\ card.conf_pct = plain.conf_pct
              /\ card.conf_width = plain.conf_width
              /\ card.conf_color = plain.conf_color
              /\ rows = BreakdownRows(LoadedClassNames, prediction.probs, RowOrder)
              /\ {RowOrder[k] : k \in 1..Len(rows)} = Classes
              /\ \A k \in 1..(Len(rows) - 1) :
                    prediction.probs[RowOrder[k]] >= prediction.probs[RowOrder[k + 1]]

\* The override fired and the card still shows the confidence predict returned.
C10_Witness ==
    /\ Rendered
    /\ BelowThreshold
    /\ card.name = NotKnown
    /\ card.conf_pct > 0
    /\ ShowsProbability(card.conf_pct, prediction.confidence)

\* C11: the card's confidence color is green from 0.8 on, amber from 0.5 to
\* below 0.8 and red below 0.5, the two boundaries falling in the upper band,
\* whether or not the low-confidence override fired.
C11_ConfidenceColorBands ==
    Rendered =>
        LET c == prediction.confidence IN
        /\ (5 * c >= 4 * Scale) <=> (card.conf_color = "#22c55e")
        /\ (2 * c >= Scale /\ 5 * c < 4 * Scale) <=> (card.conf_color = "#eab308")
        /\ (2 * c < Scale) <=> (card.conf_color = "#ef4444")

\* A card rendered at exactly 0.50 is amber.
C11_Witness ==
    /\ Rendered
    /\ 2 * prediction.confidence = Scale
    /\ ~BelowThreshold
    /\ card.conf_color = "#eab308"

(***************************************************************************)
(* Properties of clean_class_name and the catalog lookup (SpecLabels).     *)
(***************************************************************************)
HasUnderscore(str) == \E i \in 1..Len(str) : str[i] = "_"

\* C12: the lookup returns, for each of the ten catalogued names, the entry
\* with that name's risk tier, and for every other label the default record
\* (Unknown, #94a3b8, "No additional information available."); the lookup
\* and the card drawn from it go through for every label.
C12_CatalogLookupTotal ==
    /\ labelStage = "clean" => ENABLED ShowLabel
    /\ labelStage = "shown" =>
          LET info == shown.info IN
          /\ cleaned \in {Battery, Scissors, Hammer, Pliers, Wrench} =>
                info.risk = "Medium"
          /\ cleaned = Explosive => info.risk = "Critical"
          /\ cleaned \in {Bullet, Knife, Cutter} => info.risk = "High"
          /\ cleaned = Lighter => info.risk = "Low"
          /\ cleaned \notin {Battery, Scissors, Hammer, Pliers, Wrench, Explosive,
                             Bullet, Knife, Cutter, Lighter} =>
                /\ info.risk = "Unknown"
                /\ info.color = "#94a3b8"
                /\ info.desc = "No additional information available."
          /\ shown.top.conf_color \in {"#22c55e", "#eab308", "#ef4444"}

\* A label the catalog does not hold was looked up and its card drawn with
\* the default record.
C12_Witness ==
    /\ labelStage = "shown"
    /\ cleaned = <<"B", "_", "A">>
    /\ shown.info.risk = "Unknown"
    /\ shown.top.risk = "Unknown"
    /\ shown.top.desc = <<"No additional information available.">>

\* C13: clean_class_name returns what follows the first underscore of its
\* argument, later underscores kept, and the argument itself when it holds
\* no underscore; it returns for every string.
C13_CleanClassName ==
    /\ labelStage = "raw" => ENABLED CleanName
    /\ labelStage \in {"clean", "shown"} =>
          IF HasUnderscore(fileEntry)
          THEN \E i \in 1..Len(fileEntry) :
                  /\ ~HasUnderscore(SubSeq(fileEntry, 1, i - 1))
                  /\ fileEntry = SubSeq(fileEntry, 1, i - 1) \o <<"_">> \o cleaned
          ELSE cleaned = fileEntry

\* "A_B_A" was cleaned to "B_A": the second underscore is kept.
C13_Witness ==
    /\ labelStage = "clean"
    /\ fileEntry = <<"A", "_", "B", "_", "A">>
    /\ cleaned = <<"B", "_", "A">>

(***************************************************************************)
(* Properties of the Convert handler (SpecConvert).                        *)
(***************************************************************************)
Converted == convPc = "done"

\* The size of the working image when the handler reaches the ICO limit.
WorkingSize ==
    IF request.resize THEN <<request.new_w, request.new_h>>
    ELSE request.conv_image.size

LongerSide(size) == Max(size[1], size[2])

\* The number a decimal digit string, or a short integer string, denotes.
Number(str) == CHOOSE n \in 0..KiB : ToString(n) = str

\* C14: for a target of JPEG, BMP or ICO and a working image in a mode with
\* an alpha band, the image encoded has no alpha band and is the source
\* composited on opaque white; for JPEG the image encoded is RGB whatever the
\* source mode.
C14_AlphaFlattenedOnWhite ==
    Converted =>
        LET src == request.conv_image
            encoded == report.encoded
        IN  /\ request.target_format \in {"JPEG", "BMP", "ICO"} /\ HasAlpha(src.mode) =>
                  /\ ~HasAlpha(encoded.mode)
                  /\ encoded.px.a = "opaque"
                  /\ encoded.px.v = IF src.px.a = "clear" THEN "white" ELSE src.px.v
            /\ request.target_format = "JPEG" => encoded.mode = "RGB"

\* C15: converting to ICO, a working image with a side over 256 comes out
\* with its longer side exactly 256 and the other side scaled by the same
\* ratio, and a working image within 256 x 256 keeps its size.
C15_IcoLongerSide256 ==
    Converted /\ request.target_format = "ICO" =>
        LET size == report.encoded.size IN
        IF LongerSide(WorkingSize) > 256
        THEN /\ LongerSide(size) = 256
             /\ \A i \in 1..2 :
                   /\ size[i] * LongerSide(WorkingSize) <= WorkingSize[i] * 256
                   /\ WorkingSize[i] * 256 < (size[i] + 1) * LongerSide(WorkingSize)
        ELSE size = WorkingSize

\* The extension and the MIME type the format table gives a target format.
TableEntry(target_format) ==
    CASE target_format = "PNG" -> <<"png", "image/png">>
      [] target_format = "JPEG" -> <<"jpg", "image/jpeg">>
      [] target_format = "BMP" -> <<"bmp", "image/bmp">>
      [] target_format = "GIF" -> <<"gif", "image/gif">>
      [] target_format = "TIFF" -> <<"tiff", "image/tiff">>
      [] target_format = "WEBP" -> <<"webp", "image/webp">>
      [] target_format = "ICO" -> <<"ico", "image/x-icon">>

\* The download is named stem, "_converted." and the table's extension, and
\* carries the table's MIME type.
DownloadNamed(stem) ==
    /\ report.download.file_name =
          <<stem, "_converted.", TableEntry(request.target_format)[1]>>
    /\ report.download.mime = TableEntry(request.target_format)[2]

\* C16 as stated: the stem is the part of the uploaded name before its first
\* extension separator.
C16_StemBeforeFirstSeparator ==
    Converted =>
        \E i \in 2..Len(request.name) :
            /\ request.name[i] = "."
            /\ \A j \in 2..(i - 1) : request.name[j] # "."
            /\ DownloadNamed(SubSeq(request.name, 1, i - 1))

\* C16: the download is named <stem>_converted.<ext> with <ext> and the MIME
\* type from the format table, whatever the uploaded extension, and <stem>
\* is the uploaded name without its last suffix, i.e. up to its last ".".
C16_DownloadName ==
    Converted =>
        \E i \in 2..(Len(request.name) - 1) :
            /\ request.name[i] = "."
            /\ \A j \in (i + 1)..Len(request.name) : request.name[j] # "."
            /\ DownloadNamed(SubSeq(request.name, 1, i - 1))

\* "a.b.png" converted to WEBP is offered as "a.b_converted.webp".
C16_Witness ==
    /\ Converted
    /\ request.name = <<"a", ".", "b", ".", "p", "n", "g">>
    /\ request.target_format = "WEBP"
    /\ report.download.file_name = <<<<"a", ".", "b">>, "_converted.", "webp">>
    /\ report.download.mime = "image/webp"

\* C17: the size string is "<n> B" below 1024 bytes, kilobytes to one
\* decimal from 1024 to below 1,048,576 and megabytes to two decimals from
\* there on, the unit depending on these thresholds alone.
C17_FileSizeString ==
    convPc \in {"report", "done"} =>
        LET n == report.file_size
            str == report.size_str
            unit == str[Len(str)]
            tenths == 10 * Number(str[1]) + Number(str[3])
            hundredths == 100 * Number(str[1]) + 10 * Number(str[3])
                              + (IF Len(str) = 5 THEN Number(str[4]) ELSE 0)
        IN  IF n < 1024 THEN str = <<ToString(n), " B">>
            ELSE IF n < 1048576
            THEN /\ unit = " KB" /\ Len(str) = 4 /\ str[2] = "."
                 /\ 2 * (tenths * 1024 - 10 * n) <= 1024
                 /\ 2 * (10 * n - tenths * 1024) <= 1024
            ELSE /\ unit = " MB" /\ Len(str) \in {4, 5} /\ str[2] = "."
                 /\ 2 * (hundredths * 1048576 - 100 * n) <= 1048576
                 /\ 2 * (100 * n - hundredths * 1048576) <= 1048576

\* An output of exactly 1024 bytes is reported as "1.0 KB".
C17_Witness ==
    /\ Converted
    /\ report.file_size = 1024
    /\ report.size_str = <<"1", ".", "0", " KB">>
    /\ report.card.fsize = report.size_str

\* The operations the handler has applied to the working image, in order.
ImageOps == SelectSeq(convLog, LAMBDA op : op # "report")

\* C19: a Convert click applies, in this order and each at most once, the
\* resize (exactly when the toggle is on), the alpha handling, the ICO size
\* limit and the encoding; the dimensions on the success card are those of
\* the image encoded: the requested ones when the toggle is on, the source's
\* otherwise, reduced further by the ICO size limit alone.
C19_ConvertStepsInOrder ==
    /\ convPc \in {"copy", "resize", "alpha", "ico", "encode", "report", "done",
                   "error"}
    /\ ImageOps \in
          {SelectSeq(<<"resize", alpha, "downscale", "save">>,
                     LAMBDA op : op \in kept) :
              alpha \in {"flatten", "convert"},
              kept \in SUBSET {"resize", "flatten", "convert", "downscale", "save"}}
    /\ convPc \in {"alpha", "ico", "encode", "report", "done"} =>
          (request.resize <=> \E k \in 1..Len(convLog) : convLog[k] = "resize")
    /\ Converted =>
          /\ Len(SelectSeq(convLog, LAMBDA op : op = "save")) = 1
          /\ <<report.card.w, report.card.h>> = report.encoded.size
          /\ report.preview = report.encoded
          /\ IF request.target_format = "ICO" /\ LongerSide(WorkingSize) > 256
             THEN /\ report.encoded.size[1] <= WorkingSize[1]
                  /\ report.encoded.size[2] <= WorkingSize[2]
                  /\ LongerSide(report.encoded.size) <= 256
                  /\ \E k \in 1..Len(convLog) : convLog[k] = "downscale"
             ELSE report.encoded.size = WorkingSize

\* A resize to 1000 x 256 of an RGBA upload converted to ICO: resized,
\* flattened, brought down to 256 x 65, encoded, and reported at that size.
C19_Witness ==
    /\ Converted
    /\ request.resize
    /\ request.conv_image.mode = "RGBA"
    /\ WorkingSize = <<1000, 256>>
    /\ convLog = <<"resize", "flatten", "downscale", "save", "report">>
    /\ report.card.w = 256
    /\ report.card.h = 65

\* C21: for a source image with positive dimensions, any target format and
\* requested dimensions of at least 1, no step of the handler produces a
\* zero dimension: the ICO downscale computes a width and a height of at
\* least 1, does not fail over its size, and the image handed to the encoder
\* is at least 1 x 1.
C21_NoZeroDimension ==
    /\ convPc \in {"resize", "alpha", "ico", "encode", "report", "done"} =>
          out_image.size[1] >= 1 /\ out_image.size[2] >= 1
    /\ convPc = "ico" /\ request.target_format = "ICO"
          /\ LongerSide(out_image.size) > 256 =>
          IcoSize(out_image.size)[1] >= 1 /\ IcoSize(out_image.size)[2] >= 1
    /\ convPc = "error" => convLog[Len(convLog)] # "downscale"

====
